---- MODULE Spec2Model ----
(***************************************************************************)
(* Model of whitchway.py, the truncation-aware runtime probe.              *)
(*                                                                         *)
(* Python values are tagged records [tag, v] whose v is always a sequence, *)
(* so that str, bytes, int and None stay distinct.  A text is a sequence   *)
(* of one-character strings.  A Python call either returns a value or      *)
(* raises: [kind |-> "return", value |-> ...] or [kind |-> "raise", ...].  *)
(***************************************************************************)
EXTENDS Integers, Sequences, FiniteSets, TLC

\* ------------------------------------------------------------------ bounds
MaxLen == 3          \* longest text handed to _truncate_text
MaxCap == 4          \* largest max_chars handed to _truncate_text
MaxOutLen == 2       \* longest captured stream of a child of run_cmd
MaxMsgLen == 3       \* longest undecodable stream of a child of run_cmd
NProbes == 3         \* number of catalog entries that main runs

Chars == {"a", "b"}

\* ------------------------------------------------------- Python values
None == [tag |-> "None", v |-> <<>>]
Str(x) == [tag |-> "str", v |-> x]
Bytes(x) == [tag |-> "bytes", v |-> x]
PyInt(n) == [tag |-> "int", v |-> <<n>>]

IsNone(x) == x.tag = "None"

\* bool(x) for None, str and bytes
Truthy(x) == x.tag # "None" /\ Len(x.v) > 0

\* Python's `x or d`
Or(x, d) == IF Truthy(x) THEN x ELSE d

Return(x) == [kind |-> "return", value |-> x]
Raise(name) == [kind |-> "raise", value |-> [exc |-> name]]

RECURSIVE SeqsUpTo(_, _)
SeqsUpTo(S, n) ==
    IF n = 0 THEN {<<>>}
    ELSE LET shorter == SeqsUpTo(S, n - 1)
         IN  shorter \cup {Append(q, c) : q \in shorter, c \in S}

\* str(n) for a natural number, as a sequence of digit characters
Digit(d) == <<"0", "1", "2", "3", "4", "5", "6", "7", "8", "9">>[d + 1]

RECURSIVE Decimal(_)
Decimal(n) == IF n < 10 THEN <<Digit(n)>> ELSE Append(Decimal(n \div 10), Digit(n % 10))

\* ------------------------------------------------------ _truncate_text
MarkerHead ==
    <<"\n", "[", "T", "R", "U", "N", "C", "A", "T", "E", "D", "]", " ",
      "o", "r", "i", "g", "i", "n", "a", "l", "_", "l", "e", "n", "=">>
MarkerMid == <<" ", "m", "a", "x", "_", "c", "h", "a", "r", "s", "=">>

\* f"\n[TRUNCATED] original_len={len(s)} max_chars={max_chars}\n"
marker(original_len, max_chars) ==
    MarkerHead \o Decimal(original_len) \o MarkerMid \o Decimal(max_chars) \o <<"\n">>

\* the same function with the boundary test written < instead of <=
_truncate_text_strict_bound(s, max_chars) ==
    LET s1 == IF IsNone(s) THEN Str(<<>>) ELSE s
        n == Len(s1.v)
    IN  IF max_chars <= 0
        THEN Return([text |-> Str(<<>>), truncated |-> Truthy(s1), original_len |-> n])
        ELSE IF n < max_chars
        THEN Return([text |-> s1, truncated |-> FALSE, original_len |-> n])
        ELSE IF s1.tag = "bytes"
        THEN Raise("TypeError")
        ELSE Return([text |-> Str(SubSeq(s1.v, 1, max_chars) \o marker(n, max_chars)),
                     truncated |-> TRUE, original_len |-> n])

\* the same function cutting one character too many
_truncate_text_long_cut(s, max_chars) ==
    LET s1 == IF IsNone(s) THEN Str(<<>>) ELSE s
        n == Len(s1.v)
    IN  IF max_chars <= 0
        THEN Return([text |-> Str(<<>>), truncated |-> Truthy(s1), original_len |-> n])
        ELSE IF n <= max_chars
        THEN Return([text |-> s1, truncated |-> FALSE, original_len |-> n])
        ELSE IF s1.tag = "bytes"
        THEN Raise("TypeError")
        ELSE Return([text |-> Str(SubSeq(s1.v, 1, max_chars + 1) \o marker(n, max_chars)),
                     truncated |-> TRUE, original_len |-> n])

\* _truncate_text(s, max_chars).  cut + marker is bytes + str when s is
\* bytes, which Python rejects with TypeError.
_truncate_text(s, max_chars) ==
    LET s1 == IF IsNone(s) THEN Str(<<>>) ELSE s
        n == Len(s1.v)
    IN  IF max_chars <= 0
        THEN Return([text |-> Str(<<>>), truncated |-> Truthy(s1), original_len |-> n])
        ELSE IF n <= max_chars
        THEN Return([text |-> s1, truncated |-> FALSE, original_len |-> n])
        ELSE IF s1.tag = "bytes"
        THEN Raise("TypeError")
        ELSE Return([text |-> Str(SubSeq(s1.v, 1, max_chars) \o marker(n, max_chars)),
                     truncated |-> TRUE, original_len |-> n])

\* ------------------------------------------------------------- run_cmd
\* What subprocess.run(argv, stdout=PIPE, stderr=PIPE, text=True,
\* timeout=timeout_s, check=False) can do, seen from run_cmd:
\*   exit     the child ended: returncode, and both streams decoded to str;
\*   timeout  TimeoutExpired: its stdout and stderr are None when nothing was
\*            captured, else bytes on POSIX (whatever text= says) and str on
\*            Windows;
\*   error    any other Exception (empty argv, executable not found,
\*            permission denied, undecodable output) with its message.
ExitOutcomes(texts) ==
    [kind : {"exit"}, rc : {0, 1}, stdout : {Str(x) : x \in texts},
     stderr : {Str(x) : x \in texts}, exc : {"-"}, msg : {<<>>}]

Partial(texts) ==
    {None} \cup {Bytes(x) : x \in texts \ {<<>>}} \cup {Str(x) : x \in texts \ {<<>>}}

TimeoutOutcomes(texts) ==
    [kind : {"timeout"}, rc : {0}, stdout : Partial(texts), stderr : Partial(texts),
     exc : {"TimeoutExpired"}, msg : {<<>>}]

ErrorOutcomes(names, msgs) ==
    [kind : {"error"}, rc : {0}, stdout : {None}, stderr : {None}, exc : names, msg : msgs]

ClassName(exc) ==
    CASE exc = "IndexError" -> <<"I", "n", "d", "e", "x", "E", "r", "r", "o", "r">>
      [] exc = "TypeError" -> <<"T", "y", "p", "e", "E", "r", "r", "o", "r">>
      [] exc = "UnicodeDecodeError" ->
            <<"U", "n", "i", "c", "o", "d", "e", "D", "e", "c", "o", "d", "e",
              "E", "r", "r", "o", "r">>
      [] exc = "ValueError" -> <<"V", "a", "l", "u", "e", "E", "r", "r", "o", "r">>
      [] exc = "ModuleNotFoundError" ->
            <<"M", "o", "d", "u", "l", "e", "N", "o", "t", "F", "o", "u", "n", "d",
              "E", "r", "r", "o", "r">>
      [] OTHER -> <<"O", "S", "E", "r", "r", "o", "r">>

\* The text an exception's repr embeds.  IndexError (empty argv) and the
\* OSError family (not found, permission denied) carry a fixed message;
\* UnicodeDecodeError carries the whole undecodable stream.
FixedMsg(exc) == IF exc = "IndexError" THEN <<"i", "d", "x">> ELSE <<"e", "n", "o">>

\* repr(e) of an exception carrying one message: ClassName('message')
repr(exc, msg) == Str(ClassName(exc) \o <<"(", "'">> \o msg \o <<"'", ")">>)

\* the message of the TypeError that bytes + str raises
ConcatMsg == <<"c", "o", "n", "c", "a", "t">>

\* the dict built on lines 84-94 and 98-108
CommandResult(argv, rc, timeout, out, err) ==
    [argv |-> argv, rc |-> rc, timeout |-> timeout,
     stdout |-> out.text, stderr |-> err.text,
     stdout_truncated |-> out.truncated, stderr_truncated |-> err.truncated,
     stdout_len |-> out.original_len, stderr_len |-> err.original_len]

\* the dict built by `except Exception as e` on lines 109-120
LaunchFailure(argv, exc, msg) ==
    [argv |-> argv, rc |-> None, timeout |-> FALSE,
     stdout |-> Str(<<>>), stderr |-> repr(exc, msg),
     stdout_truncated |-> FALSE, stderr_truncated |-> FALSE,
     stdout_len |-> 0, stderr_len |-> Len(repr(exc, msg).v)]

\* run_cmd(argv, timeout_s, max_stdout_chars, max_stderr_chars) when
\* subprocess.run does o.  An exception raised inside the try body reaches
\* `except Exception`; one raised inside the TimeoutExpired handler has no
\* handler left and leaves run_cmd.
run_cmd(argv, timeout_s, max_stdout_chars, max_stderr_chars, o) ==
    LET out == _truncate_text(Or(o.stdout, Str(<<>>)), max_stdout_chars)
        err == _truncate_text(Or(o.stderr, Str(<<>>)), max_stderr_chars)
    IN  CASE o.kind = "exit" ->
               IF out.kind = "raise" THEN Return(LaunchFailure(argv, out.value.exc, ConcatMsg))
               ELSE IF err.kind = "raise" THEN Return(LaunchFailure(argv, err.value.exc, ConcatMsg))
               ELSE Return(CommandResult(argv, PyInt(o.rc), FALSE, out.value, err.value))
          [] o.kind = "timeout" ->
               IF out.kind = "raise" THEN out
               ELSE IF err.kind = "raise" THEN err
               ELSE Return(CommandResult(argv, None, TRUE, out.value, err.value))
          [] OTHER -> Return(LaunchFailure(argv, o.exc, o.msg))

\* subprocess.run's possible behaviours for an argv on a host where the
\* executables in Missing do not exist
Missing == {"nonexistent"}

SubprocessRun(argv, texts, msgs) ==
    IF argv = <<>> THEN ErrorOutcomes({"IndexError"}, {FixedMsg("IndexError")})
    ELSE IF argv[1] \in Missing THEN ErrorOutcomes({"OSError"}, {FixedMsg("OSError")})
    ELSE ExitOutcomes(texts) \cup TimeoutOutcomes(texts)
            \cup ErrorOutcomes({"OSError"}, {FixedMsg("OSError")})
            \cup ErrorOutcomes({"UnicodeDecodeError"}, msgs \ {<<>>})

DefaultTimeout == 4

\* ------------------------------------------------------------------ main
\* getattr(x, name, default): an attribute an object lacks is Absent
Absent == [tag |-> "absent", v |-> <<>>]
GetAttr(x, default) == IF x.tag = "absent" THEN default ELSE x

\* a Python str held whole
Tok(s) == [tag |-> "str", v |-> <<s>>]

\* sorted(S) for a set of strings, over the ascending order of their names
SortedBy(order, S) == SelectSeq(order, LAMBDA x : x \in S)

MethodOrder == <<"DELETE", "GET", "POST">>
ModuleOrder == <<"hbai.app.main", "json", "os", "sys">>

\* Values the `methods` attribute of a route can have
PySet(S) == [tag |-> "set", v |-> <<S>>]
MixedSet(S) == [tag |-> "mixedset", v |-> <<S>>]    \* strings and one int
EmptyList == [tag |-> "list", v |-> <<>>]

\* bool(x) for the values a `methods` attribute can have
MethodsTruthy(m) ==
    CASE m.tag \in {"None", "absent"} -> FALSE
      [] m.tag = "list" -> Len(m.v) > 0
      [] m.tag \in {"set", "mixedset"} -> m.v[1] # {}
      [] OTHER -> TRUE

\* sorted(m): an int is not iterable, str and int do not compare
sorted(m) ==
    CASE m.tag = "list" -> Return(<<>>)
      [] m.tag = "set" -> Return(SortedBy(MethodOrder, m.v[1]))
      [] m.tag = "mixedset" -> Raise("TypeError")
      [] OTHER -> Raise("TypeError")

\* Endpoints: a function has __qualname__ and __module__, a functools.partial
\* only the __module__ of its class.
Func(qualname, module) == [tag |-> "func", v |-> <<qualname, module>>]
PartialObj == [tag |-> "partial", v |-> <<"functools">>]

EndpointTruthy(e) == e.tag \in {"func", "partial"}

\* the dict appended on lines 170-175 for one route r
RouteRecord(r) ==
    LET endpoint == GetAttr(r.endpoint, None)
        m == GetAttr(r.methods, EmptyList)
        methods == sorted(IF MethodsTruthy(m) THEN m ELSE EmptyList)
    IN  IF methods.kind = "raise" THEN methods
        ELSE Return(
            [path |-> GetAttr(r.path, None),
             methods |-> methods.value,
             endpoint |-> IF EndpointTruthy(endpoint) /\ endpoint.tag = "func"
                          THEN Tok(endpoint.v[1]) ELSE None,
             module |-> IF EndpointTruthy(endpoint)
                        THEN Tok(endpoint.v[Len(endpoint.v)]) ELSE None])

RECURSIVE RoutesLoop(_, _)
RoutesLoop(table, acc) ==
    IF table = <<>> THEN Return(acc)
    ELSE LET rec == RouteRecord(Head(table))
         IN  IF rec.kind = "raise" THEN rec
             ELSE RoutesLoop(Tail(table), Append(acc, rec.value))

\* lines 166-175: routes = []; if app is not None and hasattr(app, "routes"): ...
ExtractRoutes(app) ==
    IF IsNone(app) \/ app.v[1].routes.tag = "absent" THEN Return(<<>>)
    ELSE IF app.v[1].routes.tag # "list" THEN Raise("TypeError")
    ELSE RoutesLoop(app.v[1].routes.v, <<>>)

\* lines 156-161: the loaded modules that have a file, by name
EnumerateModules(sys_modules) ==
    LET withFile == {n \in DOMAIN sys_modules : Truthy(sys_modules[n])}
        names == SortedBy(ModuleOrder, withFile)
    IN  [i \in 1 .. Len(names) |-> [module |-> names[i], file |-> sys_modules[names[i]]]]

\* sys.modules of the process: builtins have no __file__; a loaded application
\* adds its module
SysModules(app) ==
    LET base == [n \in {"json", "os", "sys"} |->
                    IF n = "sys" THEN None ELSE Tok("/usr/lib/python3")]
    IN  IF IsNone(app) THEN base
        ELSE [n \in {"json", "os", "sys", "hbai.app.main"} |->
                 IF n = "hbai.app.main" THEN Tok("/opt/hbai/hbai/app/main.py") ELSE base[n]]

\* lines 183-221, in order
FullCatalog ==
    << <<"systemctl", "--no-pager", "--plain", "--failed">>,
       <<"systemctl", "--no-pager", "--plain", "list-units", "--all">>,
       <<"systemctl", "--no-pager", "--plain", "list-timers", "--all">>,
       <<"ip", "-br", "link", "show">>,
       <<"ip", "-br", "addr", "show">>,
       <<"ip", "route", "show">>,
       <<"iw", "dev">>,
       <<"iw", "phy">>,
       <<"rfkill", "list">>,
       <<"nmcli", "-t", "dev", "status">>,
       <<"systemctl", "--no-pager", "--plain", "status", "NetworkManager.service">>,
       <<"systemctl", "--no-pager", "--plain", "status", "wpa_supplicant.service">>,
       <<"systemctl", "--no-pager", "--plain", "status", "iwd.service">>,
       <<"pgrep", "-a", "-f", "NetworkManager">>,
       <<"pgrep", "-a", "-f", "wpa_supplicant">>,
       <<"pgrep", "-a", "-f", "iwd">>,
       <<"wg", "show">>,
       <<"uname", "-a">>,
       <<"lsmod">>,
       <<"journalctl", "-k", "-b", "--no-pager", "-n", "200">>,
       <<"lspci", "-nn">>,
       <<"lsusb">>,
       <<"uptime">>,
       <<"free", "-h">> >>

\* the first NProbes probes of the catalog
Catalog == SubSeq(FullCatalog, 1, NProbes)

\* json.dumps: bytes are not JSON serializable
Serializable(call) == call.stdout.tag # "bytes" /\ call.stderr.tag # "bytes"

JsonDumps(obj, ok) == IF ok THEN Return([json |-> obj]) ELSE Raise("TypeError")

\* lines 236-244; ts, pid, python and root are scalars of the process
Meta(app_spec, app_import_error) ==
    [kind |-> "probe_meta", ts |-> "ts", pid |-> "pid", python |-> "python",
     root |-> "root",
     app_spec |-> IF app_spec = "" THEN None ELSE Tok(app_spec),
     app_import_error |-> app_import_error]

\* lines 223-231
ProbeSystem(timeout_s, max_out, max_err, results) ==
    [kind |-> "probe_system",
     items |-> [timeout_s |-> timeout_s, max_stdout_chars |-> max_out,
                max_stderr_chars |-> max_err, calls |-> results]]

VARIABLES t_s, t_max_chars, t_res

VARIABLES r_argv, r_max_stdout_chars, r_max_stderr_chars, r_outcome, r_res

rvars == <<r_argv, r_max_stdout_chars, r_max_stderr_chars, r_outcome, r_res>>

\* main: pc is the statement main is at; args_app, max_out, max_err are the
\* parsed arguments; app, app_err, mods, routes, calls its locals; file the
\* lines of the output file and prev_file what it held before the run;
\* raised the exception that left main, with the place it came from.
VARIABLES pc, args_app, max_out, max_err, app, app_err, mods, routes, calls,
          file, prev_file, raised

mvars == <<pc, args_app, max_out, max_err, app, app_err, mods, routes, calls,
           file, prev_file, raised>>


tvars == <<t_s, t_max_chars, t_res>>

Pending == [kind |-> "pending", value |-> <<>>]

TextInputs == {None} \cup {Str(x) : x \in SeqsUpTo(Chars, MaxLen)}

NoOutcome == [kind |-> "none", rc |-> 0, stdout |-> None, stderr |-> None, exc |-> "-", msg |-> <<>>]

TruncIdle == t_s = None /\ t_max_chars = 0 /\ t_res = Pending

RunIdle ==
    /\ r_argv = <<>>
    /\ r_max_stdout_chars = 0
    /\ r_max_stderr_chars = 0
    /\ r_outcome = NoOutcome
    /\ r_res = Pending

NotRaised == [exc |-> "-", at |-> "-"]

MainIdle ==
    /\ pc = "idle"
    /\ args_app = ""
    /\ max_out = 0
    /\ max_err = 0
    /\ app = None
    /\ app_err = None
    /\ mods = <<>>
    /\ routes = <<>>
    /\ calls = <<>>
    /\ file = <<>>
    /\ prev_file = <<>>
    /\ raised = NotRaised

InitTrunc ==
    /\ RunIdle
    /\ MainIdle
    /\ t_s \in TextInputs
    /\ t_max_chars \in -1 .. MaxCap
    /\ t_res = Pending

Truncate ==
    /\ t_res.kind = "pending"
    /\ t_res' = _truncate_text(t_s, t_max_chars)
    /\ UNCHANGED <<t_s, t_max_chars>>
    /\ UNCHANGED <<rvars, mvars>>

NextTrunc == Truncate

vars == <<tvars, rvars, mvars>>

SpecTrunc == InitTrunc /\ [][NextTrunc]_vars

\* --------------------------------------------- run_cmd, one call at a time
ArgvInputs == {<<>>, <<"nonexistent">>, <<"sh", "-c", "script">>}

InitRun ==
    /\ TruncIdle
    /\ MainIdle
    /\ r_argv \in ArgvInputs
    /\ r_max_stdout_chars \in -1 .. MaxOutLen
    /\ r_max_stderr_chars \in -1 .. MaxOutLen
    /\ r_outcome = NoOutcome
    /\ r_res = Pending

RunCmd ==
    /\ r_res.kind = "pending"
    /\ \E o \in SubprocessRun(r_argv, SeqsUpTo(Chars, MaxOutLen), SeqsUpTo(Chars, MaxMsgLen)) :
          /\ r_outcome' = o
          /\ r_res' = run_cmd(r_argv, DefaultTimeout, r_max_stdout_chars, r_max_stderr_chars, o)
    /\ UNCHANGED <<r_argv, r_max_stdout_chars, r_max_stderr_chars>>
    /\ UNCHANGED <<tvars, mvars>>

NextRun == RunCmd

SpecRun == InitRun /\ [][NextRun]_vars

\* ------------------------------------------------------------ a run of main
\* The application objects a load can yield: no route table, a route table
\* that is not iterable, and route tables whose entries have every shape.
AppObj(table) == [tag |-> "app", v |-> <<[routes |-> table]>>]
RouteList(entries) == [tag |-> "list", v |-> entries]

Handler == Func("Api.read", "hbai.app.api")

GoodRoute == [path |-> Tok("/items"), methods |-> PySet({"POST", "GET"}), endpoint |-> Handler]
NoPathRoute == [path |-> Absent, methods |-> PySet({"GET"}), endpoint |-> Handler]
NoMethodsRoute == [path |-> Tok("/static"), methods |-> Absent, endpoint |-> Absent]
NullMethodsRoute == [path |-> Tok("/ws"), methods |-> None, endpoint |-> Handler]
PartialRoute == [path |-> Tok("/hook"), methods |-> PySet({"POST", "DELETE"}), endpoint |-> PartialObj]
IntMethodsRoute == [path |-> Tok("/bad"), methods |-> PyInt(5), endpoint |-> Handler]
MixedMethodsRoute == [path |-> Tok("/mixed"), methods |-> MixedSet({"GET"}), endpoint |-> Handler]

Apps ==
    { AppObj(Absent),
      AppObj(PyInt(5)),
      AppObj(RouteList(<<>>)),
      AppObj(RouteList(<<GoodRoute>>)),
      AppObj(RouteList(<<NoPathRoute, GoodRoute>>)),
      AppObj(RouteList(<<NoMethodsRoute, NullMethodsRoute>>)),
      AppObj(RouteList(<<GoodRoute, PartialRoute>>)),
      AppObj(RouteList(<<GoodRoute, IntMethodsRoute>>)),
      AppObj(RouteList(<<MixedMethodsRoute, GoodRoute>>)) }

\* What a child of a probe can do in a run of main
ShortText == <<"a">>
LongText == <<"a", "b", "a">>

ProbeOutcomes ==
    { [kind |-> "exit", rc |-> 0, stdout |-> Str(LongText), stderr |-> Str(<<>>), exc |-> "-", msg |-> <<>>],
      [kind |-> "exit", rc |-> 1, stdout |-> Str(<<>>), stderr |-> Str(ShortText), exc |-> "-", msg |-> <<>>],
      [kind |-> "timeout", rc |-> 0, stdout |-> None, stderr |-> None, exc |-> "TimeoutExpired", msg |-> <<>>],
      [kind |-> "timeout", rc |-> 0, stdout |-> Bytes(ShortText), stderr |-> None, exc |-> "TimeoutExpired", msg |-> <<>>],
      [kind |-> "timeout", rc |-> 0, stdout |-> Bytes(LongText), stderr |-> None, exc |-> "TimeoutExpired", msg |-> <<>>],
      [kind |-> "error", rc |-> 0, stdout |-> None, stderr |-> None, exc |-> "OSError", msg |-> FixedMsg("OSError")] }

\* --max-stdout and --max-stderr of the run
MainCaps == {<<0, 0>>, <<2, 2>>}

\* what the output file holds before the run: nothing, or an earlier, longer run
OldLine(n) == [json |-> [kind |-> "old", n |-> n]]
PreviousFiles == {<<>>, <<OldLine(1), OldLine(2), OldLine(3), OldLine(4), OldLine(5)>>}

Init ==
    /\ TruncIdle
    /\ RunIdle
    /\ pc = "load"
    /\ args_app \in {"", "hbai.app.main:app"}
    /\ \E caps \in MainCaps : max_out = caps[1] /\ max_err = caps[2]
    /\ app = None
    /\ app_err = None
    /\ mods = <<>>
    /\ routes = <<>>
    /\ calls = <<>>
    /\ prev_file \in PreviousFiles
    /\ file = prev_file
    /\ raised = NotRaised

\* lines 145-151: the optional application import
LoadApp ==
    /\ pc = "load"
    /\ IF args_app = ""
       THEN app' = None /\ app_err' = None
       ELSE \/ /\ app' \in Apps
               /\ app_err' = None
            \/ /\ app' = None
               /\ \E name \in {"ModuleNotFoundError", "ValueError"} :
                     app_err' = repr(name, FixedMsg(name))
    /\ pc' = "mods"
    /\ UNCHANGED <<args_app, max_out, max_err, mods, routes, calls, file, prev_file, raised>>
    /\ UNCHANGED <<tvars, rvars>>

\* lines 156-161
ListModules ==
    /\ pc = "mods"
    /\ mods' = EnumerateModules(SysModules(app))
    /\ pc' = "routes"
    /\ UNCHANGED <<args_app, max_out, max_err, app, app_err, routes, calls, file, prev_file, raised>>
    /\ UNCHANGED <<tvars, rvars>>

\* lines 166-175
ListRoutes ==
    /\ pc = "routes"
    /\ LET r == ExtractRoutes(app)
       IN  IF r.kind = "raise"
           THEN /\ raised' = [exc |-> r.value.exc, at |-> "routes"]
                /\ pc' = "aborted"
                /\ UNCHANGED routes
           ELSE /\ routes' = r.value
                /\ pc' = "probes"
                /\ UNCHANGED raised
    /\ UNCHANGED <<args_app, max_out, max_err, app, app_err, mods, calls, file, prev_file>>
    /\ UNCHANGED <<tvars, rvars>>

\* the same statement with the output file already opened for writing
RunProbeFileOpen ==
    /\ pc = "probes"
    /\ \E o \in ProbeOutcomes :
          LET r == run_cmd(Catalog[Len(calls) + 1], DefaultTimeout, max_out, max_err, o)
          IN  IF r.kind = "raise"
              THEN /\ raised' = [exc |-> r.value.exc, at |-> "probes"]
                   /\ pc' = "aborted"
                   /\ UNCHANGED calls
              ELSE /\ calls' = Append(calls, r.value)
                   /\ pc' = IF Len(calls) + 1 = Len(Catalog) THEN "open" ELSE "probes"
                   /\ UNCHANGED raised
    /\ file' = <<>>
    /\ UNCHANGED <<args_app, max_out, max_err, app, app_err, mods, routes, prev_file>>
    /\ UNCHANGED <<tvars, rvars>>

\* one of lines 183-221: calls.append(run_cmd(argv, timeout_s, max_out, max_err))
RunProbe ==
    /\ pc = "probes"
    /\ \E o \in ProbeOutcomes :
          LET r == run_cmd(Catalog[Len(calls) + 1], DefaultTimeout, max_out, max_err, o)
          IN  IF r.kind = "raise"
              THEN /\ raised' = [exc |-> r.value.exc, at |-> "probes"]
                   /\ pc' = "aborted"
                   /\ UNCHANGED calls
              ELSE /\ calls' = Append(calls, r.value)
                   /\ pc' = IF Len(calls) + 1 = Len(Catalog) THEN "open" ELSE "probes"
                   /\ UNCHANGED raised
    /\ UNCHANGED <<args_app, max_out, max_err, app, app_err, mods, routes, file, prev_file>>
    /\ UNCHANGED <<tvars, rvars>>

\* line 249: outp.open("w") empties the file, or fails when it is not writable
OpenOutput ==
    /\ pc = "open"
    /\ \/ /\ file' = <<>>
          /\ pc' = "write_meta"
          /\ UNCHANGED raised
       \/ /\ raised' = [exc |-> "OSError", at |-> "open"]
          /\ pc' = "aborted"
          /\ UNCHANGED file
    /\ UNCHANGED <<args_app, max_out, max_err, app, app_err, mods, routes, calls, prev_file>>
    /\ UNCHANGED <<tvars, rvars>>

\* f.write(json.dumps(obj) + "\n"); an exception closes the file and leaves main
WriteLine(at, obj, ok, next) ==
    /\ pc = at
    /\ LET line == JsonDumps(obj, ok)
       IN  IF line.kind = "raise"
           THEN /\ raised' = [exc |-> line.value.exc, at |-> at]
                /\ pc' = "aborted"
                /\ UNCHANGED file
           ELSE /\ file' = Append(file, line.value)
                /\ pc' = next
                /\ UNCHANGED raised
    /\ UNCHANGED <<args_app, max_out, max_err, app, app_err, mods, routes, calls, prev_file>>
    /\ UNCHANGED <<tvars, rvars>>

\* line 250
WriteMeta == WriteLine("write_meta", Meta(args_app, app_err), TRUE, "write_modules")

\* line 251
WriteModules ==
    WriteLine("write_modules", [kind |-> "probe_modules", items |-> mods], TRUE, "write_routes")

\* line 252
WriteRoutes ==
    WriteLine("write_routes", [kind |-> "probe_routes", items |-> routes], TRUE, "write_system")

\* line 253, then the file is closed and main returns
WriteSystem ==
    WriteLine("write_system", ProbeSystem(DefaultTimeout, max_out, max_err, calls),
              \A i \in 1 .. Len(calls) : Serializable(calls[i]), "done")

Next ==
    \/ LoadApp
    \/ ListModules
    \/ ListRoutes
    \/ RunProbe
    \/ OpenOutput
    \/ WriteMeta
    \/ WriteModules
    \/ WriteRoutes
    \/ WriteSystem

Spec == Init /\ [][Next]_vars

\* ===================================================== claims, _truncate_text
TruncDone == t_res.kind # "pending"

\* the input text, absent text read as empty
t_text == IF IsNone(t_s) THEN <<>> ELSE t_s.v

\* C4, as stated: whenever length(t) > c >= 0 the result is truncated, keeps
\* the original length, and its text is the first c characters of t followed
\* by the marker recording the original length and the cap.
C4_AsStated ==
    (TruncDone /\ Len(t_text) > t_max_chars /\ t_max_chars >= 0) =>
        /\ t_res.kind = "return"
        /\ t_res.value.truncated = TRUE
        /\ t_res.value.original_len = Len(t_text)
        /\ t_res.value.text =
               Str(SubSeq(t_text, 1, t_max_chars) \o marker(Len(t_text), t_max_chars))

\* C4, amended: for length(t) > c >= 1 the result is truncated, keeps the
\* original length, and its text is the first c characters of t (a strict
\* prefix) followed by the marker; for c = 0 and non-empty t the result is
\* truncated with the original length, and its text is empty, with no marker.
C4_Truncation ==
    (TruncDone /\ Len(t_text) > t_max_chars /\ t_max_chars >= 0) =>
        /\ t_res.kind = "return"
        /\ t_res.value.truncated = TRUE
        /\ t_res.value.original_len = Len(t_text)
        /\ t_max_chars >= 1 =>
              /\ t_res.value.text.tag = "str"
              /\ SubSeq(t_res.value.text.v, 1, t_max_chars) = SubSeq(t_text, 1, t_max_chars)
              /\ SubSeq(t_res.value.text.v, t_max_chars + 1, Len(t_res.value.text.v))
                     = marker(Len(t_text), t_max_chars)
              /\ t_max_chars < Len(t_text)
        /\ t_max_chars = 0 => t_res.value.text = Str(<<>>)

C4_Witness ==
    /\ TruncDone
    /\ t_max_chars = 2
    /\ t_text = <<"a", "b", "a">>
    /\ t_res.kind = "return"
    /\ t_res.value.truncated

\* C5: for every text t (absent read as empty) and cap c >= length(t) the
\* result is not truncated, keeps the original length and its text equals t;
\* and every result that is not truncated has a text equal to the input.
C5_NoTruncation ==
    TruncDone =>
        /\ t_res.kind = "return"
        /\ t_max_chars >= Len(t_text) =>
              /\ t_res.value.truncated = FALSE
              /\ t_res.value.original_len = Len(t_text)
              /\ t_res.value.text = Str(t_text)
        /\ t_res.value.truncated = FALSE => t_res.value.text = Str(t_text)

C5_Witness ==
    /\ TruncDone
    /\ t_text = <<"a", "b">>
    /\ t_max_chars = Len(t_text)
    /\ t_res.value.truncated = FALSE

\* ============================================================ claims, run_cmd
RunDone == r_res.kind # "pending"

WellFormed(r) ==
    /\ DOMAIN r = {"argv", "rc", "timeout", "stdout", "stderr", "stdout_truncated",
                   "stderr_truncated", "stdout_len", "stderr_len"}
    /\ r.argv = r_argv
    /\ r.rc.tag \in {"int", "None"}
    /\ r.timeout \in BOOLEAN
    /\ r.stdout_truncated \in BOOLEAN /\ r.stderr_truncated \in BOOLEAN
    /\ r.stdout_len \in Nat /\ r.stderr_len \in Nat

\* C1: for every argv and every outcome of the child (exit, timeout with or
\* without partial output, launch failure) run_cmd returns a record carrying
\* argv, rc, timeout, both streams, their truncation flags and original
\* lengths, and no exception leaves it.
C1_NeverRaises == RunDone => (r_res.kind = "return" /\ WellFormed(r_res.value))

\* C3: every returned record is in exactly one of the classes normal
\* completion (integer rc, timeout false), timeout (rc null, timeout true),
\* launch failure (rc null, timeout false); a command that exceeds the
\* timeout always yields timeout = true with rc = null; no record has
\* timeout = true with a non-null rc.
C3_OutcomeClasses ==
    RunDone =>
        /\ r_res.kind = "return" =>
              /\ r_outcome.kind = "exit" =>
                    (r_res.value.rc = PyInt(r_outcome.rc) /\ ~r_res.value.timeout)
              /\ ~(r_res.value.timeout /\ ~IsNone(r_res.value.rc))
        /\ r_outcome.kind = "timeout" =>
              /\ r_res.kind = "return"
              /\ r_res.value.timeout
              /\ IsNone(r_res.value.rc)

\* A fixed size below the longest diagnostic a launch failure of the model
\* produces; the claim holds for no such size.
SmallFixedSize == Len(repr("UnicodeDecodeError", <<>>).v) + MaxMsgLen - 1

\* C6: on a launch failure run_cmd returns rc = null, timeout = false, an
\* empty stdout and a diagnostic in stderr whose length is bounded by a small
\* fixed size, whatever the failure's message and max_stderr_chars.
C6_BoundedDiagnostic ==
    (RunDone /\ r_outcome.kind = "error") =>
        /\ r_res.kind = "return"
        /\ IsNone(r_res.value.rc)
        /\ r_res.value.timeout = FALSE
        /\ r_res.value.stdout = Str(<<>>)
        /\ r_res.value.stderr = repr(r_outcome.exc, r_outcome.msg)
        /\ Len(r_res.value.stderr.v) <= SmallFixedSize

\* =============================================================== claims, main
Final == pc \in {"done", "aborted"}

Kinds(f) == [i \in 1 .. Len(f) |-> f[i].json.kind]

FourSections == <<"probe_meta", "probe_modules", "probe_routes", "probe_system">>

\* C2: whatever the probes' outcomes (success, non-zero exit, timeout, launch
\* failure), a run of main that reaches the system section runs every probe
\* of the catalog once, in catalog order, and `calls` holds one result per
\* probe whose argv sequence is the catalog's.
C2_EveryProbeRecorded ==
    (Final /\ raised.at # "routes") =>
        /\ Len(calls) = Len(Catalog)
        /\ \A i \in 1 .. Len(calls) : calls[i].argv = Catalog[i]

\* C7: every run of main whose output file is writable leaves in it exactly
\* the four records meta, modules, routes, system, in that order, each once,
\* and nothing of an earlier run, whatever the probes' outcomes and whether
\* the application load was skipped, succeeded or failed.
C7_FourRecordsInOrder ==
    (Final /\ raised.at \notin {"open", "routes"}) => Kinds(file) = FourSections

LoadSkipped == args_app = ""
LoadFailed == args_app # "" /\ IsNone(app)

\* C8: with no application specifier routes is empty and app_import_error is
\* null; with a specifier whose load fails routes is empty and
\* app_import_error is a description; in both cases the modules are
\* enumerated, every system probe runs and all four sections are written.
C8_LoadAbsorbed ==
    (Final /\ raised.at # "open" /\ (LoadSkipped \/ LoadFailed)) =>
        /\ routes = <<>>
        /\ LoadSkipped => IsNone(app_err)
        /\ LoadFailed => app_err.tag = "str"
        /\ Len(mods) > 0
        /\ Len(calls) = Len(Catalog)
        /\ Kinds(file) = FourSections
        /\ file[1].json.app_import_error = app_err
        /\ file[3].json.items = <<>>

\* the route record the claim expects of an entry of the expected shape
ShapeOk(r) == r.path.tag = "str" /\ r.methods.tag = "set" /\ r.endpoint.tag = "func"

ShapedRecord(r) ==
    [path |-> r.path, methods |-> SortedBy(MethodOrder, r.methods.v[1]),
     endpoint |-> Tok(r.endpoint.v[1]), module |-> Tok(r.endpoint.v[2])]

ExpectedRoutes(a) ==
    IF a.v[1].routes.tag # "list" THEN <<>>
    ELSE LET kept == SelectSeq(a.v[1].routes.v, ShapeOk)
         IN  [i \in 1 .. Len(kept) |-> ShapedRecord(kept[i])]

\* C9: route extraction over a loaded application never fails the run; an
\* entry lacking the expected shape (no path, methods absent, not a
\* collection or not sortable, endpoint missing or unidentifiable) yields no
\* route record, the other entries are recorded with sorted methods, and an
\* absent or malformed route table yields an empty routes section.
C9_MalformedRoutesSkipped ==
    (pc \notin {"load", "mods", "routes"} /\ ~IsNone(app)) =>
        /\ raised.at # "routes"
        /\ routes = ExpectedRoutes(app)

\* C10: main does not open the output file before application loading,
\* module enumeration, route extraction and every probe have finished: in
\* every state before the write phase, and after a run that aborted before
\* it, the file holds what it held before the run.
C10_FileUntouchedBeforeWrite ==
    (\/ pc \in {"load", "mods", "routes", "probes", "open"}
     \/ pc = "aborted" /\ raised.at \in {"routes", "probes", "open"})
        => file = prev_file

C10_Witness ==
    /\ pc = "aborted"
    /\ raised.at = "probes"
    /\ Len(calls) >= 1
    /\ prev_file # <<>>
    /\ file = prev_file
====
